---- MODULE Spec2Model ----
(***************************************************************************)
(* Model of the embedding-indexed memory store of m10ust/metaformers:      *)
(* the table public.contexts and the scripts that write and read it        *)
(* (rag_chat.py, memory_chat.py, ingest.py, insert_context.py), and of     *)
(* three loops around model calls: the retry loop of metaformers_linux.py, *)
(* the turn loop of metaformers_v5.py and the command and file guards of   *)
(* scripts/metafomers_builders_python_v2.py.                               *)
(*                                                                         *)
(* A text is a sequence of characters.  A printable character is the       *)
(* one-character string of itself; the characters TLA+ cannot write are    *)
(* named: "NUL" (\x00), "SOH" (\x01), "BEL" (\x07), "ESC" (\x1b),          *)
(* "TAB", "NL" (\n), "CR" (\r), "BQ" (the backquote), "SPIN" (a braille  *)
(* glyph, U+280B) and "CIRC" (the glyph U+25D0).                           *)
(***************************************************************************)
EXTENDS Integers, Sequences, FiniteSets, TLC

\* The characters of a TLA+ string literal, as a text.
Chars(str) == [i \in 1..Len(str) |-> SubSeq(str, i, i)]

UpperLetters == Chars("ABCDEFGHIJKLMNOPQRSTUVWXYZ")
LowerLetters == Chars("abcdefghijklmnopqrstuvwxyz")
Range(f) == {f[i] : i \in DOMAIN f}

Digits == Range(Chars("0123456789"))
\* str.isspace / regex \s, on the characters of the model.
Whitespace == {" ", "TAB", "NL", "CR"}
\* [\x00-\x08\x0B\x0C\x0E-\x1F]
ControlChars == {"NUL", "SOH", "BEL", "ESC"}
\* SPINNER_RE: the braille block U+2800..U+28FF and the listed circle glyphs
SpinnerChars == {"SPIN", "CIRC"}
\* CSI parameter bytes [0-9;?]
CsiParams == Digits \cup {";", "?"}
\* CSI intermediate bytes [ -/]
CsiInters == Range(Chars(" !#$%&'(")) \cup Range(Chars(")*+,-./")) \cup {"\""}
\* [@-Z\\-_]
Esc2Chars == {"@"} \cup Range(UpperLetters) \cup {"\\", "]", "^", "_"}
\* CSI final bytes [@-~]
CsiFinals == Esc2Chars \cup {"[", "BQ"} \cup Range(LowerLetters) \cup {"{", "|", "}", "~"}

\* The suffix of s from position i on.
From(s, i) == SubSeq(s, i, Len(s))

\* How many leading characters of s are in set S.
RECURSIVE Span(_, _)
Span(s, S) == IF s = <<>> \/ Head(s) \notin S THEN 0 ELSE 1 + Span(Tail(s), S)

\* Length of the match of ANSI_RE at the head of s, 0 when it does not match.
\* The three alternatives are tried in the order the pattern lists them.
AnsiMatchLen(s) ==
    IF Len(s) < 2 \/ s[1] # "ESC" THEN 0
    ELSE LET p == Span(From(s, 3), CsiParams)
             q == Span(From(s, 3 + p), CsiInters)
             f == 3 + p + q
             b == Span(From(s, 3), CsiFinals \cup CsiParams \cup CsiInters
                                   \cup Whitespace \cup SpinnerChars
                                   \cup (ControlChars \ {"BEL"}))
         IN IF s[2] = "[" /\ f <= Len(s) /\ s[f] \in CsiFinals THEN f
            ELSE IF s[2] \in Esc2Chars THEN 2
            ELSE IF s[2] = "]" /\ 3 + b <= Len(s) /\ s[3 + b] = "BEL" THEN 3 + b
            ELSE 0

\* ANSI_RE.sub("", s): leftmost non-overlapping matches removed.
RECURSIVE AnsiSub(_)
AnsiSub(s) ==
    IF s = <<>> THEN <<>>
    ELSE LET n == AnsiMatchLen(s)
         IN IF n > 0 THEN AnsiSub(From(s, n + 1))
            ELSE <<Head(s)>> \o AnsiSub(Tail(s))

\* s without the characters of S.
RECURSIVE Without(_, _)
Without(s, S) ==
    IF s = <<>> THEN <<>>
    ELSE IF Head(s) \in S THEN Without(Tail(s), S)
    ELSE <<Head(s)>> \o Without(Tail(s), S)

\* str.strip()
RECURSIVE LStrip(_)
LStrip(s) == IF s # <<>> /\ Head(s) \in Whitespace THEN LStrip(Tail(s)) ELSE s
RECURSIVE RStrip(_)
RStrip(s) ==
    IF s # <<>> /\ s[Len(s)] \in Whitespace THEN RStrip(SubSeq(s, 1, Len(s) - 1)) ELSE s
Strip(s) == RStrip(LStrip(s))

\* rag_chat.clean_text
StripThenRemove(s) ==
    IF s = <<>> THEN <<>>
    ELSE Without(Without(AnsiSub(Without(Strip(s), {"NUL"})), SpinnerChars), ControlChars)
clean_text(s) ==
    IF s = <<>> THEN <<>>
    ELSE Strip(Without(Without(AnsiSub(Without(s, {"NUL"})), SpinnerChars), ControlChars))

\* ingest.clean_text: the same, and carriage returns dropped before the strip.
ingest_clean_text(s) ==
    IF s = <<>> THEN <<>>
    ELSE Strip(Without(Without(Without(AnsiSub(Without(s, {"NUL"})), SpinnerChars),
                               ControlChars), {"CR"}))

\* str.lower(), character by character.
LowerOf == [c \in Range(UpperLetters) |->
               LowerLetters[CHOOSE i \in DOMAIN UpperLetters : UpperLetters[i] = c]]
LowerChar(c) == IF c \in DOMAIN LowerOf THEN LowerOf[c] ELSE c
Lower(s) == [i \in 1..Len(s) |-> LowerChar(s[i])]

\* s.startswith(p)
StartsWith(s, p) == Len(p) <= Len(s) /\ SubSeq(s, 1, Len(p)) = p

\* p in s (substring test)
Contains(s, p) == \E i \in 1..(Len(s) - Len(p) + 1) : SubSeq(s, i, i + Len(p) - 1) = p

\* The literal alternatives of NOISE_RE, lower-cased (the pattern is IGNORECASE).
NoiseLiterals ==
    { Chars("topic:"), Chars("creator:"), Chars("mediator:"), Chars("reviewer:"),
      Chars("=== turn"), Chars("thinking..."), Chars("begin"), Chars("end"),
      Chars("<<"), Chars(">>"), Chars("[llama"), <<"ESC">> }

\* \[\d{4}-\d\d-\d\dT at the head of the (lower-cased) text s
TimestampAt(s) ==
    /\ Len(s) >= 12
    /\ s[1] = "[" /\ s[6] = "-" /\ s[9] = "-" /\ s[12] = "t"
    /\ \A i \in {2, 3, 4, 5, 7, 8, 10, 11} : s[i] \in Digits

\* One of the alternatives of NOISE_RE matches at position q of s.
NoiseTokenAt(s, q) ==
    LET low == Lower(SubSeq(s, q, IF q + 11 < Len(s) THEN q + 11 ELSE Len(s)))
    IN \/ \E lit \in NoiseLiterals : StartsWith(low, lit)
       \/ TimestampAt(low)

\* NOISE_RE.search(s): at the start of the text or after a newline, optional
\* whitespace, then one of the alternatives.
NOISE_RE_search(s) ==
    \E p \in 1..Len(s) :
       /\ p = 1 \/ s[p - 1] = "NL"
       /\ \E q \in p..Len(s) :
            /\ \A i \in p..(q - 1) : s[i] \in Whitespace
            /\ NoiseTokenAt(s, q)

(***************************************************************************)
(* Vectors.  A vector is [dims |-> n, xy |-> <<x, y>>]: the n-dimensional  *)
(* vector (x, y, 0, ..., 0).  The embedder's components count units of     *)
(* 1e-7; a vector literal and a stored vector count units of 1e-6.         *)
(***************************************************************************)
EMB_DIM == 384
\* The dimensionality of all-mpnet-base-v2, the other model the scripts load.
ALT_DIM == 768
\* MIN_SIM = 0.35, in thousandths
MIN_SIM == 350
\* LIMIT {k*6}
OVERFETCH == 6
\* INGEST_CHUNK and INGEST_BATCH as set in the environment of the modelled run
CHUNK_CHARS == 2
BATCH == 64

Abs(x) == IF x < 0 THEN -x ELSE x
\* f"{float(x):.6f}": x, in units of 1e-7, rounded to the nearest 1e-6.
Format6(x) == IF x < 0 THEN -((Abs(x) + 5) \div 10) ELSE (x + 5) \div 10

\* to_vec_literal / memory_chat.embed's join / emb_to_vector_literal, read back
\* by the ::vector cast: one component per input component, six decimals each.
to_vec_literal(vec) == [dims |-> vec.dims, xy |-> <<Format6(vec.xy[1]), Format6(vec.xy[2])>>]

\* SentenceTransformer.encode: opaque; a fixed non-zero vector per text, of the
\* loaded model's dimensionality.  The stand-in reads the first character.
EncodeXY(text) ==
    IF text = <<>> THEN <<-2, 49>>
    ELSE CASE text[1] = "p" -> <<52, 3>>
           [] text[1] = "P" -> <<41, 28>>
           [] text[1] = "r" -> <<30, 44>>
           [] OTHER -> <<-2, 49>>
encode(text, dims) == [dims |-> dims, xy |-> EncodeXY(text)]

Dot(a, b) == a.xy[1] * b.xy[1] + a.xy[2] * b.xy[2]
Max(a, b) == IF a > b THEN a ELSE b
\* floor of the square root of na * nb
NormProduct(a, b) ==
    LET na == Dot(a, a)
        nb == Dot(b, b)
    IN CHOOSE r \in 0..Max(na, nb) : r * r <= na * nb /\ (r + 1) * (r + 1) > na * nb

\* pgvector's a <=> b (cosine distance) for vectors of equal dimensions, in
\* thousandths: 1 - a.b / (|a| |b|).
CosDist(a, b) == LET r == NormProduct(a, b) IN (1000 * (r - Dot(a, b))) \div r

(***************************************************************************)
(* Inputs of the modelled runs.                                            *)
(***************************************************************************)
MaxCalls == 2
MaxK == 2
MaxIngestRuns == 1

Sessions == {"s1", "s2"}
Roles == {"user", "assistant"}

CsiReset == <<"ESC", "[", "0", "m">>
TPolitics == Chars("Politics")
TDirty == CsiReset \o Chars("rome ") \o <<"SPIN">>
TNoise == Chars("=== Turn 3 ===") \o <<"NL">> \o Chars("CREATOR: plan details")
TNul == <<"NUL", "NUL">>
TBlank == <<" ", "TAB">>
TSpin == CsiReset \o <<"SPIN">>
TError == Chars("(model error) timeout")

\* Texts handed to rag_chat.remember and to memory_chat.remember.
RagTexts == {TDirty, TPolitics, TNoise, TNul, TBlank, TSpin, TError}
McTexts == {TNoise, TBlank, TNul}
\* memory_chat's callers of the modelled runs write the user's side.
McRoles == {"user"}
\* The session the modelled recalls read.
RecallSessions == {"s1"}
Queries == {Chars("Politics?"), Chars("<?")}
\* The block_terms argument of a recall and the DEFAULT_BLOCK_TERMS of the
\* process that makes it (its BLOCK_TERMS environment variable).
BlockCases ==
    { [block_terms |-> <<>>, env |-> <<>>],
      [block_terms |-> <<Chars("POLITICS")>>, env |-> <<>>],
      [block_terms |-> <<Chars("POLITICS")>>, env |-> <<Chars("rome")>>] }

\* Files matched by an ingest run: the directory name and the content.
FileLog == [session |-> "s1", raw |-> Chars("<<<<<<") \o <<"CR">> \o Chars("<<<<<<")]
FileNul == [session |-> "s1", raw |-> TNul]
IngestPaths == {<<FileNul, FileLog>>}

(***************************************************************************)
(* State.                                                                  *)
(***************************************************************************)
VARIABLES
    store,                \* public.contexts: the rows, in insertion order
    nextId,               \* the id sequence of the table
    embModelDims,         \* dimensionality of the model EMB_MODEL names
    returned,             \* the ids the single-row writers have returned so far
    ingestRuns,           \* ingest runs started so far
    ing,                  \* the ingest run: its position and locals
    aborted,              \* the connections whose transaction is aborted, each with
                          \* the kind of call whose failure accounts for it
    last,                 \* the last call of remember / recall and its outcome
    inflight,             \* the calls of remember that concurrent processes are in
    ollama,               \* a call of call_ollama_stream_and_accumulate: its locals
    v5                    \* the run of metaformers_v5.main: its position and locals

vars == <<store, nextId, embModelDims, returned, ingestRuns, ing, aborted, last,
          inflight, ollama, v5>>

NoCall ==
    [op |-> "none", sid |-> "", role |-> "", text |-> <<>>, query |-> <<>>, k |-> 0,
     block |-> <<>>, env |-> <<>>, ret |-> "-", id |-> 0, rows |-> <<>>, kept |-> <<>>, result |-> <<>>,
     conn |-> <<>>, up |-> TRUE, read |-> "-", steps |-> <<>>]

\* The processes that call remember at the same time.
Procs == {"p1", "p2"}
NoRemember == [pc |-> "idle", script |-> "", sid |-> "", role |-> "", text |-> <<>>,
               row |-> <<>>, id |-> 0, ret |-> "-"]

OllamaIdle == [pc |-> "idle", MAX_RETRIES |-> 0, attempt |-> 0, delay |-> 0, slept |-> <<>>,
               error |-> "-", ret |-> "-"]

V5Idle == [pc |-> "idle", turns |-> 0, mediator_interval |-> 0, turn |-> 0,
           q_out |-> [bound |-> FALSE, turn |-> 0], prev_creator |-> 0,
           last_mediator |-> 0, first_highlight |-> 0, calls |-> <<>>]

IngIdle ==
    [pc |-> "idle", paths |-> <<>>, batch |-> 0, session |-> "", chunks |-> <<>>, i |-> 0,
     inserted_total |-> 0]

Init ==
    /\ store = <<>>
    /\ nextId = 1
    /\ embModelDims \in {EMB_DIM, ALT_DIM}
    /\ returned = {}
    /\ ingestRuns = 0
    /\ ing = IngIdle
    /\ aborted = {}
    /\ last = NoCall
    /\ inflight = [p \in Procs |-> NoRemember]
    /\ ollama = OllamaIdle
    /\ v5 = V5Idle

(***************************************************************************)
(* The table.                                                              *)
(***************************************************************************)
HasNul(text) == \E i \in DOMAIN text : text[i] = "NUL"

\* The embedding column is declared with the store's dimensionality: a vector
\* of another length is refused by the insert.
ColumnAccepts(vec) == vec.dims = EMB_DIM

\* cur.execute(INSERT ...): the driver refuses a string holding NUL, the
\* table a vector of the wrong length.
InsertAccepted(rows) ==
    \A j \in DOMAIN rows : ~HasNul(rows[j].text) /\ ColumnAccepts(rows[j].embedding)

\* The default of the id column: the j-th row of an INSERT takes the next value
\* of the table's sequence.  (A refused INSERT may burn values; the ids only
\* grow either way, and the gaps are not modelled.)
NextVal(j) == nextId + j - 1

\* The rows of an INSERT ... RETURNING id, with the ids the sequence assigns.
Inserted(rows) ==
    [j \in DOMAIN rows |->
        [id |-> NextVal(j), session_id |-> rows[j].session_id, role |-> rows[j].role,
         text |-> rows[j].text, embedding |-> rows[j].embedding]]

\* cur.fetchone()[0] after INSERT ... RETURNING id
RowCount(rows) == Len(rows)
fetchone_id(rows) == Inserted(rows)[1].id

\* The table once the INSERT is committed.
UpsertRows(rows) ==
    SelectSeq(store, LAMBDA r : \A j \in DOMAIN rows :
                  r.session_id # rows[j].session_id \/ r.role # rows[j].role)
        \o Inserted(rows)
AppendFirst(rows) == store \o SubSeq(Inserted(rows), 1, 1)
AppendRows(rows) == store \o Inserted(rows)

\* A connection of a script: rag_chat opens one per process (one SESSION_ID),
\* memory_chat's caller one per session.
ConnOf(script, sid) == <<script, sid>>

\* The server takes a statement sent on conn: it is reachable and the
\* connection's transaction is not aborted.
Aborted(conn) == \E a \in aborted : a[1] = conn
ExecuteOk(conn, up) == up /\ ~Aborted(conn)

\* The connections with an aborted transaction after a statement on conn has
\* failed: an error of the server aborts the transaction, and nothing but a
\* rollback ends it.  A text holding NUL is refused by the driver before
\* anything is sent.
AfterFailedInsert(conn, rows) ==
    IF (\E j \in DOMAIN rows : HasNul(rows[j].text)) \/ Aborted(conn) THEN aborted
    ELSE aborted \cup {<<conn, "remember">>}

\* The same after the SELECT of a recall has failed; own: the SELECT fails
\* whatever the state of the transaction.
AfterFailedSelect(conn, own) ==
    IF own THEN {a \in aborted : a[1] # conn} \cup {<<conn, "recall">>} ELSE aborted

\* WHERE session_id = %s
AllRows(sid) == DOMAIN store
SessionRows(sid) == {i \in DOMAIN store : store[i].session_id = sid}

\* One row of a SELECT over the table: rag_chat selects role, text and the
\* distance; memory_chat selects id, role, text and orders by the distance.
RowOf(i, q, withId) ==
    [id |-> IF withId THEN store[i].id ELSE 0, role |-> store[i].role,
     text |-> store[i].text, dist |-> CosDist(store[i].embedding, q)]

\* The rows at the places S as the SELECT computes them, in table order.
RECURSIVE TableScan(_, _, _)
TableScan(S, q, withId) ==
    IF S = {} THEN <<>>
    ELSE LET i == CHOOSE i \in S : \A j \in S : i <= j
         IN <<RowOf(i, q, withId)>> \o TableScan(S \ {i}, q, withId)

\* ORDER BY dist ASC LIMIT n over the rows rs, S the places in rs
\* not yet emitted: every order the database may
\* produce.  Rows at the same distance come in any order; of several equal
\* rows one stands for all.
RECURSIVE OrderByLimit(_, _, _)
OrderByLimit(rs, S, n) ==
    IF S = {} \/ n <= 0 THEN {<<>>}
    ELSE LET nearest == {i \in S : \A j \in S : rs[i].dist <= rs[j].dist}
             firsts == {i \in nearest : \A j \in nearest : rs[j] = rs[i] => i <= j}
         IN UNION { { <<rs[i]>> \o rest : rest \in OrderByLimit(rs, S \ {i}, n - 1) } :
                    i \in firsts }

\* SELECT ... FROM public.contexts WHERE session_id = sid ORDER BY dist LIMIT n
Select(sid, q, n, withId) ==
    LET rs == TableScan(SessionRows(sid), q, withId)
    IN OrderByLimit(rs, DOMAIN rs, n)

\* The SELECT of a recall: fails when the server is down or when a row's
\* vector and the query vector differ in length.
SelectFails(sid, q, n, up) ==
    \/ ~up
    \/ n > 0 /\ \E i \in SessionRows(sid) : store[i].embedding.dims # q.dims

(***************************************************************************)
(* rag_chat.py                                                             *)
(***************************************************************************)
ModelErrorPrefix == Chars("(model error)")

\* The early returns of rag_chat.remember on the cleaned text.
RejectsWithoutSentinel(t) == t = <<>> \/ NOISE_RE_search(t)
RememberRejects(t) ==
    \/ StartsWith(t, ModelErrorPrefix)
    \/ t = <<>>
    \/ NOISE_RE_search(t)

\* rag_chat.remember(role, text, conn) in a process whose SESSION_ID is sid.
RagRemember(sid, role, text, up) ==
    /\ last.op = "none"
    /\ Cardinality(returned) < MaxCalls
    /\ LET t == clean_text(text)
           vec == to_vec_literal(encode(t, embModelDims))
           row == [session_id |-> sid, role |-> role, text |-> t, embedding |-> vec]
           conn == ConnOf("rag_chat", sid)
           call == [NoCall EXCEPT !.op = "rag.remember", !.sid = sid, !.role = role,
                                  !.text = text, !.conn = conn, !.up = up]
       IN IF RememberRejects(t)
          THEN /\ last' = [call EXCEPT !.ret = "None", !.steps = <<"clean", "check">>]
               /\ UNCHANGED <<store, nextId, returned, aborted>>
          ELSE IF ExecuteOk(conn, up) /\ InsertAccepted(<<row>>)
          THEN /\ store' = AppendRows(<<row>>)
               /\ nextId' = nextId + 1
               /\ returned' = returned \cup {fetchone_id(<<row>>)}
               /\ last' = [call EXCEPT !.ret = "id", !.id = fetchone_id(<<row>>),
                                       !.steps = <<"clean", "check", "embed", "insert">>]
               /\ UNCHANGED aborted
          ELSE /\ last' = [call EXCEPT !.ret = "error",
                                       !.steps = <<"clean", "check", "embed", "insert">>]
               /\ aborted' = AfterFailedInsert(conn, <<row>>)
               /\ UNCHANGED <<store, nextId, returned>>
    /\ UNCHANGED <<embModelDims, ingestRuns, ing,
                 inflight, ollama, v5>>

\* block_lc of rag_chat.recall
BlockSetOfCaller(block_terms, DEFAULT_BLOCK_TERMS) ==
    {Lower(t) : t \in Range(block_terms)} \ {<<>>}
BlockSet(block_terms, DEFAULT_BLOCK_TERMS) ==
    {Lower(t) : t \in Range(block_terms) \cup Range(DEFAULT_BLOCK_TERMS)} \ {<<>>}

\* The loop of rag_chat.recall over the fetched rows.
RECURSIVE FilterByGate(_, _)
FilterByGate(rows, block_lc) ==
    IF rows = <<>> THEN <<>>
    ELSE LET r == Head(rows)
             drop == \/ r.dist > MIN_SIM
                     \/ \E bt \in block_lc : Contains(Lower(r.text), bt)
         IN (IF drop THEN <<>> ELSE <<r>>) \o FilterByGate(Tail(rows), block_lc)
RECURSIVE FilterRows(_, _)
FilterRows(rows, block_lc) ==
    IF rows = <<>> THEN <<>>
    ELSE LET r == Head(rows)
             drop == \/ r.dist > MIN_SIM
                     \/ r.text = <<>>
                     \/ NOISE_RE_search(r.text)
                     \/ \E bt \in block_lc : Contains(Lower(r.text), bt)
         IN (IF drop THEN <<>> ELSE <<r>>) \o FilterRows(Tail(rows), block_lc)

\* list.sort(key=dist): stable, ascending.
RECURSIVE InsertByDist(_, _)
InsertByDist(r, sorted) ==
    IF sorted = <<>> THEN <<r>>
    ELSE IF r.dist < Head(sorted).dist THEN <<r>> \o sorted
    ELSE <<Head(sorted)>> \o InsertByDist(r, Tail(sorted))
RECURSIVE InsertDescending(_, _)
InsertDescending(r, sorted) ==
    IF sorted = <<>> THEN <<r>>
    ELSE IF r.dist > Head(sorted).dist THEN <<r>> \o sorted
    ELSE <<Head(sorted)>> \o InsertDescending(r, Tail(sorted))
RECURSIVE SortDescending(_)
SortDescending(rows) ==
    IF rows = <<>> THEN <<>>
    ELSE InsertDescending(rows[Len(rows)], SortDescending(SubSeq(rows, 1, Len(rows) - 1)))
RECURSIVE SortByDist(_)
SortByDist(rows) ==
    IF rows = <<>> THEN <<>>
    ELSE InsertByDist(rows[Len(rows)], SortByDist(SubSeq(rows, 1, Len(rows) - 1)))

\* kept[:k]
TopAll(rows, k) == rows
TopK(rows, k) == SubSeq(rows, 1, IF k < Len(rows) THEN k ELSE Len(rows))

\* LIMIT {k*6}
FetchHalf(k) == k \div 2
FetchLimit(k) == k * OVERFETCH

\* rag_chat.recall(query, conn, k, block_terms) in a process whose SESSION_ID is
\* sid and whose DEFAULT_BLOCK_TERMS is env.
RagRecallSwallow(sid, env, query, k, block_terms, up) ==
    /\ last.op = "none"
    /\ LET q == to_vec_literal(encode(query, embModelDims))
           conn == ConnOf("rag_chat", sid)
           call == [NoCall EXCEPT !.op = "rag.recall", !.sid = sid, !.query = query,
                                  !.k = k, !.block = block_terms, !.env = env,
                                  !.conn = conn, !.up = up]
       IN IF ~ExecuteOk(conn, up) \/ SelectFails(sid, q, FetchLimit(k), up)
          THEN /\ last' = [call EXCEPT !.ret = "list", !.read = "failed"]
               /\ aborted' = AfterFailedSelect(conn, SelectFails(sid, q, FetchLimit(k), up))
          ELSE /\ \E rows \in Select(sid, q, FetchLimit(k), FALSE) :
                 LET kept == TopK(SortByDist(FilterRows(rows, BlockSet(block_terms, env))), k)
                 IN last' = [call EXCEPT !.ret = "list", !.read = "ok", !.rows = rows,
                                         !.kept = kept,
                                         !.result = [j \in DOMAIN kept |->
                                                        <<kept[j].role, kept[j].text>>]]
               /\ UNCHANGED aborted
    /\ UNCHANGED <<store, nextId, embModelDims, returned, ingestRuns, ing,
                 inflight, ollama, v5>>
RagRecall(sid, env, query, k, block_terms, up) ==
    /\ last.op = "none"
    /\ LET q == to_vec_literal(encode(query, embModelDims))
           conn == ConnOf("rag_chat", sid)
           call == [NoCall EXCEPT !.op = "rag.recall", !.sid = sid, !.query = query,
                                  !.k = k, !.block = block_terms, !.env = env,
                                  !.conn = conn, !.up = up]
       IN IF ~ExecuteOk(conn, up) \/ SelectFails(sid, q, FetchLimit(k), up)
          THEN /\ last' = [call EXCEPT !.ret = "error", !.read = "failed"]
               /\ aborted' = AfterFailedSelect(conn, SelectFails(sid, q, FetchLimit(k), up))
          ELSE /\ \E rows \in Select(sid, q, FetchLimit(k), FALSE) :
                 LET kept == TopK(SortByDist(FilterRows(rows, BlockSet(block_terms, env))), k)
                 IN last' = [call EXCEPT !.ret = "list", !.read = "ok", !.rows = rows,
                                         !.kept = kept,
                                         !.result = [j \in DOMAIN kept |->
                                                        <<kept[j].role, kept[j].text>>]]
               /\ UNCHANGED aborted
    /\ UNCHANGED <<store, nextId, embModelDims, returned, ingestRuns, ing,
                 inflight, ollama, v5>>

(***************************************************************************)
(* memory_chat.py: its embedder is always all-MiniLM-L6-v2.                *)
(***************************************************************************)
\* memory_chat.embed(text): the vector literal of the raw text.
embed(text) == to_vec_literal(encode(text, EMB_DIM))

\* memory_chat.remember(conn, session_id, role, text)
McRemember(sid, role, text, up) ==
    /\ last.op = "none"
    /\ Cardinality(returned) < MaxCalls
    /\ LET row == [session_id |-> sid, role |-> role, text |-> text, embedding |-> embed(text)]
           conn == ConnOf("memory_chat", sid)
           call == [NoCall EXCEPT !.op = "mc.remember", !.sid = sid, !.role = role,
                                  !.text = text, !.conn = conn, !.up = up]
       IN IF ExecuteOk(conn, up) /\ InsertAccepted(<<row>>)
          THEN /\ store' = AppendRows(<<row>>)
               /\ nextId' = nextId + 1
               /\ returned' = returned \cup {fetchone_id(<<row>>)}
               /\ last' = [call EXCEPT !.ret = "id", !.id = fetchone_id(<<row>>),
                                       !.steps = <<"embed", "insert">>]
               /\ UNCHANGED aborted
          ELSE /\ last' = [call EXCEPT !.ret = "error", !.steps = <<"embed", "insert">>]
               /\ aborted' = AfterFailedInsert(conn, <<row>>)
               /\ UNCHANGED <<store, nextId, returned>>
    /\ UNCHANGED <<embModelDims, ingestRuns, ing,
                 inflight, ollama, v5>>

\* memory_chat.recall(conn, session_id, query, k): the fetched rows as they are.
McRecall(sid, query, k, up) ==
    /\ last.op = "none"
    /\ LET q == embed(query)
           conn == ConnOf("memory_chat", sid)
           call == [NoCall EXCEPT !.op = "mc.recall", !.sid = sid, !.query = query, !.k = k,
                                  !.conn = conn, !.up = up]
       IN IF ~ExecuteOk(conn, up) \/ SelectFails(sid, q, k, up)
          THEN /\ last' = [call EXCEPT !.ret = "error", !.read = "failed"]
               /\ aborted' = AfterFailedSelect(conn, SelectFails(sid, q, k, up))
          ELSE /\ \E rows \in Select(sid, q, k, TRUE) :
                 last' = [call EXCEPT !.ret = "list", !.read = "ok", !.rows = rows,
                                      !.kept = rows,
                                      !.result = [j \in DOMAIN rows |->
                                                     <<rows[j].id, rows[j].role, rows[j].text>>]]
               /\ UNCHANGED aborted
    /\ UNCHANGED <<store, nextId, embModelDims, returned, ingestRuns, ing,
                 inflight, ollama, v5>>

(***************************************************************************)
(* insert_context.py: one row of an all-mpnet-base-v2 vector into "s1".    *)
(***************************************************************************)
InsertContext(up) ==
    /\ last.op = "none"
    /\ Cardinality(returned) < MaxCalls
    /\ LET text == Chars("hello world")
           row == [session_id |-> "s1", role |-> "user", text |-> text,
                   embedding |-> encode(text, ALT_DIM)]
           call == [NoCall EXCEPT !.op = "insert_context", !.sid = "s1", !.role = "user",
                                  !.text = text]
       IN IF up /\ InsertAccepted(<<row>>)
          THEN /\ store' = AppendRows(<<row>>)
               /\ nextId' = nextId + 1
               /\ returned' = returned \cup {fetchone_id(<<row>>)}
               /\ last' = [call EXCEPT !.ret = "id", !.id = nextId]
          ELSE /\ last' = [call EXCEPT !.ret = "error"]
               /\ UNCHANGED <<store, nextId, returned>>
    /\ UNCHANGED <<embModelDims, ingestRuns, ing, aborted,
                 inflight, ollama, v5>>

(***************************************************************************)
(* ingest.py                                                               *)
(***************************************************************************)
\* chunk_text(s, size)
RECURSIVE chunk_text(_, _)
chunk_text(s, size) ==
    IF Len(s) <= size THEN <<s>>
    ELSE <<SubSeq(s, 1, size)>> \o chunk_text(From(s, size + 1), size)

\* "sanity: enforce correct dims": some embedding of the batch has another length.
DimsUnchecked(embs) == FALSE
DimsMismatch(embs) == \E j \in DOMAIN embs : embs[j].dims # EMB_DIM

\* main: the model is loaded, the connection opened, inserted_total = 0.
IngestStart(paths, batch) ==
    /\ last.op = "none"
    /\ ing.pc \in {"idle", "done", "crashed"}
    /\ ingestRuns < MaxIngestRuns
    /\ ingestRuns' = ingestRuns + 1
    /\ ing' = [IngIdle EXCEPT !.pc = "files", !.paths = paths, !.batch = batch]
    /\ UNCHANGED <<store, nextId, embModelDims, returned, aborted, last,
                 inflight, ollama, v5>>

\* for fp in paths: read the file, clean it, chunk it; an unreadable or empty
\* file is skipped.
IngestOpen(readable) ==
    /\ last.op = "none"
    /\ ing.pc = "files"
    /\ ing.paths # <<>>
    /\ LET f == Head(ing.paths)
           txt == ingest_clean_text(f.raw)
       IN IF ~readable \/ txt = <<>>
          THEN ing' = [ing EXCEPT !.paths = Tail(ing.paths)]
          ELSE ing' = [ing EXCEPT !.pc = "batches", !.session = f.session,
                                  !.chunks = chunk_text(txt, CHUNK_CHARS), !.i = 0]
    /\ UNCHANGED <<store, nextId, embModelDims, returned, ingestRuns, aborted, last,
                 inflight, ollama, v5>>

\* One pass of the loop over mini-batches: embed, check the dimensions, insert
\* and commit, or roll back and go on.
IngestBatch(up) ==
    /\ last.op = "none"
    /\ ing.pc = "batches"
    /\ ing.i < Len(ing.chunks)
    /\ LET hi == IF ing.i + ing.batch < Len(ing.chunks) THEN ing.i + ing.batch ELSE Len(ing.chunks)
           batch_texts == SubSeq(ing.chunks, ing.i + 1, hi)
           embs == [j \in DOMAIN batch_texts |-> encode(batch_texts[j], embModelDims)]
           rows == [j \in DOMAIN batch_texts |->
                       [session_id |-> ing.session, role |-> "user", text |-> batch_texts[j],
                        embedding |-> to_vec_literal(embs[j])]]
       IN IF DimsMismatch(embs)
          THEN /\ ing' = [ing EXCEPT !.pc = "crashed"]
               /\ UNCHANGED <<store, nextId>>
          ELSE IF up /\ InsertAccepted(rows)
          THEN /\ store' = AppendRows(rows)
               /\ nextId' = nextId + Len(rows)
               /\ ing' = [ing EXCEPT !.i = ing.i + ing.batch,
                                     !.inserted_total = ing.inserted_total + Len(rows)]
          ELSE /\ ing' = [ing EXCEPT !.i = ing.i + ing.batch]
               /\ UNCHANGED <<store, nextId>>
    /\ UNCHANGED <<embModelDims, returned, ingestRuns, aborted, last,
                 inflight, ollama, v5>>

\* The file's batches are done: the per-file summary, then the next file.
IngestFileDone ==
    /\ last.op = "none"
    /\ ing.pc = "batches"
    /\ ing.i >= Len(ing.chunks)
    /\ ing' = [ing EXCEPT !.pc = "files", !.paths = Tail(ing.paths), !.chunks = <<>>, !.i = 0]
    /\ UNCHANGED <<store, nextId, embModelDims, returned, ingestRuns, aborted, last,
                 inflight, ollama, v5>>

\* No file is left: the connection is closed and the total reported.
IngestFinish ==
    /\ last.op = "none"
    /\ ing.pc = "files"
    /\ ing.paths = <<>>
    /\ ing' = [ing EXCEPT !.pc = "done"]
    /\ UNCHANGED <<store, nextId, embModelDims, returned, ingestRuns, aborted, last,
                 inflight, ollama, v5>>

(***************************************************************************)
(* The callers' loops.  `last` holds a call's arguments and outcome at the *)
(* moment it returns; the caller takes the outcome and goes on to its next *)
(* turn before the next call or ingest step is looked at.                  *)
(***************************************************************************)
NextTurn ==
    /\ last.op # "none"
    /\ last' = NoCall
    /\ UNCHANGED <<store, nextId, embModelDims, returned, ingestRuns, ing, aborted,
                 inflight, ollama, v5>>

(***************************************************************************)
(* The specification.                                                      *)
(***************************************************************************)
Next ==
    \/ \E sid \in Sessions, role \in Roles, text \in RagTexts :
         RagRemember(sid, role, text, TRUE)
    \/ \E sid \in RecallSessions, query \in Queries, k \in 0..MaxK, b \in BlockCases :
         RagRecall(sid, b.env, query, k, b.block_terms, TRUE)
    \/ \E sid \in Sessions, role \in McRoles, text \in McTexts :
         McRemember(sid, role, text, TRUE)
    \/ \E sid \in RecallSessions, query \in Queries, k \in 0..MaxK :
         McRecall(sid, query, k, TRUE)
    \/ InsertContext(TRUE)
    \/ \E paths \in IngestPaths : IngestStart(paths, BATCH)
    \/ \E readable \in BOOLEAN : IngestOpen(readable)
    \/ IngestBatch(TRUE)
    \/ IngestFileDone
    \/ IngestFinish
    \/ NextTurn

Spec == Init /\ [][Next]_vars


(***************************************************************************)
(* The same calls under faults: the server may fail any statement, and the *)
(* session id and the text handed to memory_chat may be empty.             *)
(***************************************************************************)
MaxFaults == 1
\* INGEST_BATCH set small enough to cut the chunks of one file into two
\* batches.
SmallBatch == 4
FaultBatches == {SmallBatch}
FaultSessions == {"s1", ""}
FaultRagTexts == {TDirty, TPolitics}
FaultMcTexts == {<<>>, TNoise}
\* Whether the server takes the next statement: it may fail one while fewer
\* than MaxFaults connections have an aborted transaction.
Ups == IF Cardinality(aborted) < MaxFaults THEN BOOLEAN ELSE {TRUE}

NextFaults ==
    \/ last.op = "none" /\ \E text \in FaultRagTexts, up \in Ups :
         RagRemember("s1", "user", text, up)
    \/ last.op = "none" /\ \E query \in Queries, k \in 0..MaxK, up \in Ups :
         RagRecall("s1", <<>>, query, k, <<>>, up)
    \/ last.op = "none" /\ \E sid \in FaultSessions, text \in FaultMcTexts, up \in Ups :
         McRemember(sid, "user", text, up)
    \/ last.op = "none" /\ \E sid \in FaultSessions, query \in Queries, k \in 0..MaxK,
                              up \in Ups :
         McRecall(sid, query, k, up)
    \/ \E up \in Ups : InsertContext(up)
    \/ \E paths \in IngestPaths, batch \in FaultBatches : IngestStart(paths, batch)
    \/ \E readable \in BOOLEAN : IngestOpen(readable)
    \/ \E up \in Ups : IngestBatch(up)
    \/ IngestFileDone
    \/ IngestFinish
    \/ NextTurn

SpecFaults == Init /\ [][NextFaults]_vars

(***************************************************************************)
(* The cleaners on their own: every text of up to MaxCleanLen characters   *)
(* of CleanAlphabet is handed to rag_chat.clean_text and to                *)
(* ingest.clean_text; last.result holds the text returned.                 *)
(***************************************************************************)
MaxCleanLen == 3
CleanAlphabet == {"NUL", "SOH", "ESC", "[", "0", "m", "SPIN", " ", "TAB", "NL", "CR", "a"}
CleanInputs == UNION {[1..n -> CleanAlphabet] : n \in 0..MaxCleanLen}

RagClean(s) ==
    /\ last.op = "none"
    /\ last' = [NoCall EXCEPT !.op = "rag.clean_text", !.text = s, !.result = clean_text(s)]
    /\ UNCHANGED <<store, nextId, embModelDims, returned, ingestRuns, ing, aborted,
                 inflight, ollama, v5>>

IngestClean(s) ==
    /\ last.op = "none"
    /\ last' = [NoCall EXCEPT !.op = "ingest.clean_text", !.text = s,
                              !.result = ingest_clean_text(s)]
    /\ UNCHANGED <<store, nextId, embModelDims, returned, ingestRuns, ing, aborted,
                 inflight, ollama, v5>>

NextClean ==
    \/ last.op = "none" /\ \E s \in CleanInputs : RagClean(s)
    \/ last.op = "none" /\ \E s \in CleanInputs : IngestClean(s)
    \/ NextTurn

SpecClean == Init /\ [][NextClean]_vars

(***************************************************************************)
(* scripts/metafomers_builders_python_v2.py: the guards in front of the    *)
(* commands and files a model's output asks for.  A path is a text; the    *)
(* file system has no symbolic links, so resolving a path only removes its *)
(* "." and ".." components.                                                *)
(***************************************************************************)
UpperOf == [c \in Range(LowerLetters) |->
              UpperLetters[CHOOSE i \in DOMAIN LowerLetters : LowerLetters[i] = c]]
UpperChar(c) == IF c \in DOMAIN UpperOf THEN UpperOf[c] ELSE c
\* str.upper()
Upper(s) == [i \in 1..Len(s) |-> UpperChar(s[i])]

BLACKLIST_SUBSTRINGS ==
    << Chars(" sudo "), Chars("sudo "), Chars(";sudo"), Chars("&&sudo"), Chars("|sudo"),
       Chars(" rm -rf /"), Chars(" rm -fr /"), Chars(" rm -rf /*"), Chars(" rm -fr /*"),
       Chars(" /System"), Chars(" /Library"), Chars(" /bin/"), Chars(" /sbin/"),
       Chars(" /usr/bin/"), Chars(" /usr/sbin/"),
       Chars(" chflags "), Chars(" csrutil "), Chars(" nvram "), Chars(" kext"), Chars(" spctl "),
       Chars(" launchctl "), Chars(" killall "), Chars(" pkill "), Chars(" kill -9 "),
       Chars(" diskutil "), Chars(" tmutil "), Chars(" asr "), Chars(" bless "),
       Chars(" ifconfig "), Chars(" networksetup "), Chars(" route "), Chars(" ipfw "),
       Chars(" pfctl "),
       Chars(" scutil "), Chars(" defaults write /Library"), Chars(" defaults delete /Library"),
       Chars("> /etc"), Chars(">> /etc"), Chars(" /etc/"), Chars(" /private/etc/"),
       Chars(" rm -rf ~/."), Chars(" rm -fr ~/.") >>
RISKY_BASENAMES ==
    {Chars("rm"), Chars("cp"), Chars("mv"), Chars("ln"), Chars("chmod"), Chars("chown"),
     Chars("truncate"), Chars("dd"), Chars("tar")}

\* ROOT, the directory the script is started in, and LOCAL_META under it.
ROOT == Chars("/w")
LOCAL_META == ROOT \o Chars("/local-meta")

\* s.split(c)
RECURSIVE SplitOn(_, _)
SplitOn(s, S) ==
    LET n == Len(s) - Span(s, Range(s) \ S)
    IN IF n = 0 THEN <<s>>
       ELSE <<SubSeq(s, 1, Len(s) - n)>> \o SplitOn(From(s, Len(s) - n + 2), S)

\* The texts of parts that are not empty.
RECURSIVE NonEmpty(_)
NonEmpty(parts) ==
    IF parts = <<>> THEN <<>>
    ELSE (IF Head(parts) = <<>> THEN <<>> ELSE <<Head(parts)>>) \o NonEmpty(Tail(parts))

\* shlex.split(cmd) of a command without quotes and backslashes.
shlex_split(cmd) == NonEmpty(SplitOn(cmd, Whitespace))

\* ROOT / rel_path
UnderRoot(rel_path) ==
    IF rel_path # <<>> /\ Head(rel_path) = "/" THEN rel_path
    ELSE ROOT \o <<"/">> \o rel_path

\* The components of a resolved path: "." and empty ones dropped, ".." taking
\* the one before it away.
RECURSIVE ResolveParts(_, _)
ResolveParts(parts, done) ==
    IF parts = <<>> THEN done
    ELSE IF Head(parts) \in {<<>>, <<".">>} THEN ResolveParts(Tail(parts), done)
    ELSE IF Head(parts) = <<".", ".">>
    THEN ResolveParts(Tail(parts), SubSeq(done, 1, Len(done) - 1))
    ELSE ResolveParts(Tail(parts), Append(done, Head(parts)))

RECURSIVE JoinPath(_)
JoinPath(parts) ==
    IF parts = <<>> THEN <<>> ELSE <<"/">> \o Head(parts) \o JoinPath(Tail(parts))

\* str(path.resolve()) of an absolute path
resolve(path) ==
    LET parts == ResolveParts(SplitOn(path, {"/"}), <<>>)
    IN IF parts = <<>> THEN <<"/">> ELSE JoinPath(parts)

inside_local_meta(path) == StartsWith(resolve(path), resolve(LOCAL_META))

\* blacklisted(cmd): the first entry found in the padded, lower-cased command,
\* stripped; <<>> stands for None.
blacklisted(cmd) ==
    LET low == Lower(<<" ">> \o Strip(cmd) \o <<" ">>)
        hits == {i \in DOMAIN BLACKLIST_SUBSTRINGS : Contains(low, BLACKLIST_SUBSTRINGS[i])}
    IN IF hits = {} THEN <<>>
       ELSE Strip(BLACKLIST_SUBSTRINGS[CHOOSE i \in hits : \A j \in hits : i <= j])

\* Path(parts[0]).name
BaseName(tok) == LET parts == NonEmpty(SplitOn(tok, {"/"}))
                 IN IF parts = <<>> THEN <<>> ELSE parts[Len(parts)]

risky_outside_localmeta(cmd) ==
    LET parts == shlex_split(cmd)
    IN /\ parts # <<>>
       /\ BaseName(parts[1]) \in RISKY_BASENAMES
       /\ \E j \in 2..Len(parts) :
             /\ Head(parts[j]) # "-"
             /\ parts[j] \notin {Chars("|"), Chars("&&"), Chars("||"), Chars(";")}
             /\ "/" \in Range(parts[j])
             /\ ~inside_local_meta(UnderRoot(parts[j]))

\* How a subprocess that was started ends.
ProcOutcomes == {"rc 0", "rc 1", "timeout", "exec error"}

\* safe_exec(cmd); last.steps tells whether subprocess.Popen was called,
\* last.result is the entry the blacklist reports.
safe_exec(cmd, outcome) ==
    /\ last.op = "none"
    /\ LET call == [NoCall EXCEPT !.op = "safe_exec", !.text = cmd]
       IN IF Strip(cmd) = <<>>
          THEN last' = [call EXCEPT !.ret = "empty command"]
          ELSE IF blacklisted(cmd) # <<>>
          THEN last' = [call EXCEPT !.ret = "blocked by blacklist", !.result = blacklisted(cmd)]
          ELSE IF risky_outside_localmeta(cmd)
          THEN last' = [call EXCEPT !.ret = "risky path outside ./local-meta"]
          ELSE last' = [call EXCEPT !.ret = outcome, !.steps = <<"Popen">>]
    /\ UNCHANGED <<store, nextId, embModelDims, returned, ingestRuns, ing, aborted,
                 inflight, ollama, v5>>

\* [A-Za-z0-9._/\-]
PathChars == Range(UpperLetters) \cup Range(LowerLetters) \cup Digits \cup {".", "_", "/", "-"}
LocalMetaPrefix == Chars("./local-meta/")

\* s.strip(chars)
RECURSIVE RStripSet(_, _)
RStripSet(s, S) ==
    IF s # <<>> /\ s[Len(s)] \in S THEN RStripSet(SubSeq(s, 1, Len(s) - 1), S) ELSE s
StripSet(s, S) == RStripSet(From(s, Span(s, S) + 1), S)

\* VALID_REL.match(p)
VALID_REL(p) ==
    /\ StartsWith(p, LocalMetaPrefix)
    /\ Len(p) > Len(LocalMetaPrefix)
    /\ Range(p) \subseteq PathChars

\* _clean_path(s): the first stretch of s that reads ./local-meta/ and then
\* path characters, as many as follow; <<>> stands for None.
_clean_path(raw) ==
    LET s == Strip(StripSet(Strip(raw), {"BQ", "\""}))
        n == Len(LocalMetaPrefix)
        at == {i \in 1..(Len(s) - n) :
                  SubSeq(s, i, i + n - 1) = LocalMetaPrefix /\ s[i + n] \in PathChars}
    IN IF at = {} THEN <<>>
       ELSE LET i == CHOOSE i \in at : \A j \in at : i <= j
                p == SubSeq(s, i, i + n - 1 + Span(From(s, i + n), PathChars))
            IN IF Len(p) > 200 \/ ~VALID_REL(p) THEN <<>> ELSE p

\* One file block of parse_creator_output handed to safe_write_file: raw_path
\* is what follows the fence; writable tells whether mkdir and open succeed.
\* last.result is the resolved path of the file written.
FileBlock(raw_path, writable) ==
    /\ last.op = "none"
    /\ LET path == _clean_path(raw_path)
           p == UnderRoot(path)
           call == [NoCall EXCEPT !.op = "file_block", !.text = raw_path, !.query = path]
       IN IF path = <<>>
          THEN last' = [call EXCEPT !.ret = "skipped"]
          ELSE IF ~inside_local_meta(p)
          THEN last' = [call EXCEPT !.ret = "refused"]
          ELSE IF ~writable
          THEN last' = [call EXCEPT !.ret = "failed"]
          ELSE last' = [call EXCEPT !.ret = "written", !.result = resolve(p)]
    /\ UNCHANGED <<store, nextId, embModelDims, returned, ingestRuns, ing, aborted,
                 inflight, ollama, v5>>

\* The commands tried: every blacklist entry as it is written, in lower and in
\* upper case, alone and inside a longer command, and commands with no entry.
CommandInputs ==
    {pre \o e \o post :
        pre \in {<<>>, Chars("ls")}, post \in {<<>>, Chars("x")},
        e \in UNION {{BLACKLIST_SUBSTRINGS[i], Lower(BLACKLIST_SUBSTRINGS[i]),
                      Upper(BLACKLIST_SUBSTRINGS[i])} : i \in DOMAIN BLACKLIST_SUBSTRINGS}}
    \cup {<<>>, Chars("  "), Chars("echo hi"), Chars("rm ./local-meta/a"),
          Chars("rm -f ../x"), Chars("./local-meta/rm /tmp/x")}

\* The file paths tried: ./local-meta/ followed by up to MaxDepth components,
\* and paths that need cleaning or are not under ./local-meta/.
MaxDepth == 3
PathParts == {Chars(".."), Chars("."), Chars("a"), Chars("local-meta"), Chars("local-meta-evil")}
RECURSIVE PathsOfDepth(_)
PathsOfDepth(n) ==
    IF n = 1 THEN {LocalMetaPrefix \o c : c \in PathParts}
    ELSE {p \o <<"/">> \o c : p \in PathsOfDepth(n - 1), c \in PathParts}
PathInputs ==
    UNION {PathsOfDepth(n) : n \in 1..MaxDepth}
    \cup {<<"BQ">> \o Chars("./local-meta/a.py") \o <<"BQ">>, Chars("/etc/passwd"),
          Chars("./other/a"), Chars("./local-meta/"), Chars("to ./local-meta/a b")}

NextBuilders ==
    \/ last.op = "none" /\ \E cmd \in CommandInputs, outcome \in ProcOutcomes :
                              safe_exec(cmd, outcome)
    \/ last.op = "none" /\ \E raw_path \in PathInputs, writable \in BOOLEAN :
                              FileBlock(raw_path, writable)
    \/ NextTurn

SpecBuilders == Init /\ [][NextBuilders]_vars

(***************************************************************************)
(* metaformers_linux.py: call_ollama_stream_and_accumulate.  Waits are in  *)
(* seconds.  ollama.slept lists the waits made, ollama.error is the        *)
(* exception of the last attempt.                                          *)
(***************************************************************************)
\* The values MF_MAX_RETRIES is set to: 0 .. MaxRetriesTried.
MaxRetriesTried == 6
FIRST_DELAY == 2
DELAY_CAP == 20
\* How one attempt ends: the stream is read to its end, or raises.
AttemptOutcomes == {"ok", "ReadTimeout", "ConnectionError", "HTTPError", "Exception"}

\* The call is made: delay = 2.0, and the loop is entered.
OllamaCall(max_retries) ==
    /\ ollama.pc = "idle"
    /\ ollama' = [OllamaIdle EXCEPT !.pc = "loop", !.MAX_RETRIES = max_retries,
                                    !.delay = FIRST_DELAY]
    /\ UNCHANGED <<store, nextId, embModelDims, returned, ingestRuns, ing, aborted, last,
                   inflight, v5>>

\* One pass of for attempt in range(1, MAX_RETRIES + 1).
OllamaAttempt(outcome) ==
    /\ ollama.pc = "loop"
    /\ ollama.attempt < ollama.MAX_RETRIES
    /\ LET attempt == ollama.attempt + 1
           tried == [ollama EXCEPT !.attempt = attempt, !.error = outcome]
       IN IF outcome = "ok"
          THEN ollama' = [tried EXCEPT !.pc = "returned", !.ret = "text", !.error = "-"]
          ELSE IF outcome \in {"ReadTimeout", "ConnectionError"} /\ attempt < ollama.MAX_RETRIES
          THEN ollama' = [tried EXCEPT !.slept = Append(ollama.slept, ollama.delay),
                                       !.delay = IF ollama.delay * 2 < DELAY_CAP
                                                 THEN ollama.delay * 2 ELSE DELAY_CAP]
          ELSE ollama' = [tried EXCEPT !.pc = "returned", !.ret = "[model error]"]
    /\ UNCHANGED <<store, nextId, embModelDims, returned, ingestRuns, ing, aborted, last,
                   inflight, v5>>

\* The range is used up: the function ends without a return statement.
OllamaFallOff ==
    /\ ollama.pc = "loop"
    /\ ollama.attempt >= ollama.MAX_RETRIES
    /\ ollama' = [ollama EXCEPT !.pc = "returned", !.ret = "None"]
    /\ UNCHANGED <<store, nextId, embModelDims, returned, ingestRuns, ing, aborted, last,
                   inflight, v5>>

\* The caller takes the value returned.
OllamaDone ==
    /\ ollama.pc = "returned"
    /\ ollama' = OllamaIdle
    /\ UNCHANGED <<store, nextId, embModelDims, returned, ingestRuns, ing, aborted, last,
                   inflight, v5>>

NextRetry ==
    \/ \E max_retries \in 0..MaxRetriesTried : OllamaCall(max_retries)
    \/ \E outcome \in AttemptOutcomes : OllamaAttempt(outcome)
    \/ OllamaFallOff
    \/ OllamaDone

SpecRetry == Init /\ [][NextRetry]_vars

\* The same with every pass of the loop eventually made.
FairSpecRetry ==
    SpecRetry /\ WF_vars(\E outcome \in AttemptOutcomes : OllamaAttempt(outcome))
              /\ WF_vars(OllamaFallOff)

(***************************************************************************)
(* metaformers_v5.py: the loop over the turns in main.  v5.q_out tells     *)
(* whether the local q_out is bound and in which turn it was assigned;     *)
(* v5.prev_creator, v5.last_mediator and v5.first_highlight are the turns  *)
(* of the answers kept, 0 for None;                                        *)
(* v5.calls lists the calls of ollama_chat made in the current turn, each  *)
(* with the turn of the question put into its prompt (0 when the prompt    *)
(* holds no question).                                                     *)
(***************************************************************************)
MaxTurns == 3
MaxInterval == 2
\* What ollama_chat(...).strip() gives: a text, the empty text, or an exception.
ChatOutcomes == {"text", "empty", "error"}

mediator_triggered == v5.mediator_interval > 0 /\ v5.turn % v5.mediator_interval = 0

Chat(role, q) == [role |-> role, q |-> q]

\* The loop is entered with --turns and --interval.
V5Start(turns, mediator_interval) ==
    /\ v5.pc = "idle"
    /\ v5' = [V5Idle EXCEPT !.pc = "Questioner", !.turns = turns,
                            !.mediator_interval = mediator_interval, !.turn = 1]
    /\ UNCHANGED <<store, nextId, embModelDims, returned, ingestRuns, ing, aborted, last,
                   inflight, ollama>>

\* The Questioner block: q_out is assigned as soon as ollama_chat returns, the
\* test for an empty answer coming after.
Questioner(outcome) ==
    /\ v5.pc = "Questioner"
    /\ v5' = [v5 EXCEPT !.pc = "Creator",
                        !.calls = Append(v5.calls, Chat("Questioner", 0)),
                        !.q_out = IF outcome = "error" THEN v5.q_out
                                  ELSE [bound |-> TRUE, turn |-> v5.turn]]
    /\ UNCHANGED <<store, nextId, embModelDims, returned, ingestRuns, ing, aborted, last,
                   inflight, ollama>>

\* The Creator block: build_creator_prompt(q_out) raises when q_out is not
\* bound, and the except clause takes it.
Creator(outcome) ==
    /\ v5.pc = "Creator"
    /\ LET next == IF mediator_triggered THEN "MediatorQ" ELSE "Scriber"
       IN IF ~v5.q_out.bound
          THEN v5' = [v5 EXCEPT !.pc = next]
          ELSE v5' = [v5 EXCEPT !.pc = next,
                                !.calls = Append(v5.calls, Chat("Creator", v5.q_out.turn)),
                                !.prev_creator = IF outcome = "text" THEN v5.turn
                                                 ELSE v5.prev_creator]
    /\ UNCHANGED <<store, nextId, embModelDims, returned, ingestRuns, ing, aborted, last,
                   inflight, ollama>>

\* The MediatorQ block, entered when mediator_triggered.
MediatorQ(outcome) ==
    /\ v5.pc = "MediatorQ"
    /\ IF ~v5.q_out.bound
       THEN v5' = [v5 EXCEPT !.pc = "Scriber"]
       ELSE v5' = [v5 EXCEPT !.pc = "Scriber",
                             !.calls = Append(v5.calls, Chat("MediatorQ", v5.q_out.turn)),
                             !.last_mediator = IF outcome = "text" THEN v5.turn
                                               ELSE v5.last_mediator]
    /\ UNCHANGED <<store, nextId, embModelDims, returned, ingestRuns, ing, aborted, last,
                   inflight, ollama>>

\* The Scriber block.
Scriber(outcome) ==
    /\ v5.pc = "Scriber"
    /\ v5' = [v5 EXCEPT !.pc = "validate", !.calls = Append(v5.calls, Chat("Scriber", 0)),
                        !.first_highlight = IF outcome = "text" /\ v5.first_highlight = 0
                                            THEN v5.turn ELSE v5.first_highlight]
    /\ UNCHANGED <<store, nextId, embModelDims, returned, ingestRuns, ing, aborted, last,
                   inflight, ollama>>

\* The turn's end: the next turn, or the end of the run.
V5NextTurn ==
    /\ v5.pc = "validate"
    /\ IF v5.turn < v5.turns
       THEN v5' = [v5 EXCEPT !.pc = "Questioner", !.turn = v5.turn + 1, !.calls = <<>>]
       ELSE v5' = V5Idle
    /\ UNCHANGED <<store, nextId, embModelDims, returned, ingestRuns, ing, aborted, last,
                   inflight, ollama>>

NextV5 ==
    \/ \E turns \in 1..MaxTurns, mediator_interval \in 0..MaxInterval :
          V5Start(turns, mediator_interval)
    \/ \E outcome \in ChatOutcomes : Questioner(outcome)
    \/ \E outcome \in ChatOutcomes : Creator(outcome)
    \/ \E outcome \in ChatOutcomes : MediatorQ(outcome)
    \/ \E outcome \in ChatOutcomes : Scriber(outcome)
    \/ V5NextTurn

SpecV5 == Init /\ [][NextV5]_vars

(***************************************************************************)
(* Two processes in remember at the same time, each on a connection of its *)
(* own.  A call goes through three steps: what it does before it touches   *)
(* the database (clean, reject, embed), the INSERT ... RETURNING id, which *)
(* takes the id, and conn.commit(), which makes the row visible.           *)
(***************************************************************************)
ConcScripts == {"rag_chat", "memory_chat"}
ConcTexts == {TDirty, TPolitics, TNoise}

\* The row remember of the script hands to the INSERT.
RowFor(script, sid, role, text) ==
    IF script = "rag_chat"
    THEN [session_id |-> sid, role |-> role, text |-> clean_text(text),
          embedding |-> to_vec_literal(encode(clean_text(text), embModelDims))]
    ELSE [session_id |-> sid, role |-> role, text |-> text, embedding |-> embed(text)]

\* The calls that hold or will hold an id.
Writing == {p \in Procs : inflight[p].pc \in {"insert", "commit"}}

\* remember up to the statement: rag_chat cleans and may return None.
RememberBegin(p, script, sid, role, text) ==
    /\ inflight[p].pc = "idle"
    /\ Cardinality(returned) + Cardinality(Writing) < MaxCalls
    /\ LET call == [NoRemember EXCEPT !.script = script, !.sid = sid, !.role = role,
                                      !.text = text]
       IN IF script = "rag_chat" /\ RememberRejects(clean_text(text))
          THEN inflight' = [inflight EXCEPT ![p] = [call EXCEPT !.pc = "returned", !.ret = "None"]]
          ELSE inflight' = [inflight EXCEPT ![p] = [call EXCEPT !.pc = "insert"]]
    /\ UNCHANGED <<store, nextId, embModelDims, returned, ingestRuns, ing, aborted, last,
                   ollama, v5>>

\* cur.execute(INSERT ... RETURNING id); cur.fetchone()[0]
RememberInsert(p) ==
    /\ inflight[p].pc = "insert"
    /\ LET c == inflight[p]
           row == RowFor(c.script, c.sid, c.role, c.text)
       IN IF InsertAccepted(<<row>>)
          THEN /\ inflight' = [inflight EXCEPT ![p] = [c EXCEPT !.pc = "commit",
                                                                !.row = Inserted(<<row>>),
                                                                !.id = fetchone_id(<<row>>)]]
               /\ nextId' = nextId + 1
          ELSE /\ inflight' = [inflight EXCEPT ![p] = [c EXCEPT !.pc = "returned", !.ret = "error"]]
               /\ UNCHANGED nextId
    /\ UNCHANGED <<store, embModelDims, returned, ingestRuns, ing, aborted, last,
                   ollama, v5>>

\* The table once the transaction that inserted rows commits.
CommitUpsert(rows) ==
    SelectSeq(store, LAMBDA r : \A j \in DOMAIN rows :
                  r.session_id # rows[j].session_id \/ r.role # rows[j].role)
        \o rows
CommitRows(rows) == store \o rows

\* conn.commit(); return the id
RememberCommit(p) ==
    /\ inflight[p].pc = "commit"
    /\ store' = CommitRows(inflight[p].row)
    /\ returned' = returned \cup {inflight[p].id}
    /\ inflight' = [inflight EXCEPT ![p] = [@ EXCEPT !.pc = "returned", !.ret = "id"]]
    /\ UNCHANGED <<nextId, embModelDims, ingestRuns, ing, aborted, last,
                   ollama, v5>>

\* The caller goes on.
RememberReturn(p) ==
    /\ inflight[p].pc = "returned"
    /\ inflight' = [inflight EXCEPT ![p] = NoRemember]
    /\ UNCHANGED <<store, nextId, embModelDims, returned, ingestRuns, ing, aborted, last,
                   ollama, v5>>

NextConc ==
    \/ \E p \in Procs, script \in ConcScripts, sid \in Sessions, role \in Roles,
          text \in ConcTexts : RememberBegin(p, script, sid, role, text)
    \/ \E p \in Procs : RememberInsert(p)
    \/ \E p \in Procs : RememberCommit(p)
    \/ \E p \in Procs : RememberReturn(p)

SpecConc == Init /\ [][NextConc]_vars

(***************************************************************************)
(* Properties.                                                             *)
(***************************************************************************)
LastIsRecall == last.op \in {"rag.recall", "mc.recall"} /\ last.ret = "list"
LastIsRemember == last.op \in {"rag.remember", "mc.remember"}

\* The query vector of the last recall.
QueryVector ==
    IF last.op = "rag.recall" THEN to_vec_literal(encode(last.query, embModelDims))
    ELSE embed(last.query)

\* Distance of the stored row at place i from the last recall's query.
DistTo(i) == CosDist(store[i].embedding, QueryVector)

\* The returned list as (role, text) pairs.
Pairs ==
    [j \in DOMAIN last.result |->
        IF last.op = "rag.recall" THEN last.result[j]
        ELSE <<last.result[j][2], last.result[j][3]>>]

PairOf(i) == <<store[i].role, store[i].text>>

\* The terms the last recall of rag_chat was asked to block, lower-cased.
BlockedTerms == {Lower(t) : t \in (Range(last.block) \cup Range(last.env)) \ {<<>>}}

\* The stored row at place i passes every filter of the last rag_chat recall.
Qualifies(i) ==
    /\ DistTo(i) <= MIN_SIM
    /\ store[i].text # <<>>
    /\ ~NOISE_RE_search(store[i].text)
    /\ \A t \in BlockedTerms : ~Contains(Lower(store[i].text), t)

\* C1 (session isolation): every entry a recall on session A returns is the
\* (role, text) of a row stored under A, at that row's distance from the
\* query; a row memory_chat returns by id is a row of A.
SessionIsolation ==
    LastIsRecall =>
        \A j \in DOMAIN last.result :
            /\ \E i \in DOMAIN store :
                 /\ store[i].session_id = last.sid
                 /\ PairOf(i) = Pairs[j]
                 /\ DistTo(i) = last.kept[j].dist
            /\ last.op = "mc.recall" =>
                 \A i \in DOMAIN store :
                    store[i].id = last.result[j][1] => store[i].session_id = last.sid

\* Witness of C1: a recall returned rows of its session while a row of another
\* session, not noise, lies nearer to the query than anything returned.
SessionIsolationWitness ==
    /\ LastIsRecall
    /\ last.result # <<>>
    /\ \E i \in DOMAIN store :
         /\ store[i].session_id # last.sid
         /\ ~NOISE_RE_search(store[i].text)
         /\ store[i].embedding.dims = QueryVector.dims
         /\ DistTo(i) < last.kept[1].dist

\* C2 (distance ordering): the list a recall returns is in ascending order of
\* the distance of its entries from the query.
DistanceOrdering ==
    LastIsRecall =>
        /\ Len(last.kept) = Len(last.result)
        /\ \A j \in DOMAIN last.result :
              /\ Pairs[j] = <<last.kept[j].role, last.kept[j].text>>
              /\ \E i \in SessionRows(last.sid) :
                    PairOf(i) = Pairs[j] /\ DistTo(i) = last.kept[j].dist
        /\ \A j \in 1..(Len(last.kept) - 1) : last.kept[j].dist <= last.kept[j + 1].dist

\* Witness of C2: rag_chat's recall returned two entries at different distances.
DistanceOrderingWitness ==
    /\ last.op = "rag.recall" /\ last.ret = "list"
    /\ Len(last.result) >= 2
    /\ last.kept[1].dist < last.kept[2].dist

\* C3 (similarity gate), as claimed: no stored row farther than MIN_SIM from
\* the query is in the list a recall returns.
SimilarityGate ==
    LastIsRecall =>
        \A i \in SessionRows(last.sid) :
            DistTo(i) > MIN_SIM => \A j \in DOMAIN last.result : Pairs[j] # PairOf(i)

\* C4 (block-term exclusion): no text rag_chat's recall returns contains, in any
\* letter case, a non-empty term of the caller's block_terms or of the default
\* block terms; with no term matching, a row that is alone nearest to the
\* query and passes the other filters is returned when k >= 1.
BlockTermExclusion ==
    last.op = "rag.recall" /\ last.ret = "list" =>
        /\ \A j \in DOMAIN last.result :
              \A t \in (Range(last.block) \cup Range(last.env)) \ {<<>>} :
                 ~Contains(Lower(last.result[j][2]), Lower(t))
        /\ \A i \in SessionRows(last.sid) :
              ( /\ last.k >= 1
                /\ Qualifies(i)
                /\ \A l \in SessionRows(last.sid) \ {i} : DistTo(l) > DistTo(i) )
              => \E j \in DOMAIN last.result : last.result[j] = PairOf(i)

\* Witness of C4: the nearest row of the session holds a blocked term and is
\* left out, while a farther row is returned.
BlockTermExclusionWitness ==
    /\ last.op = "rag.recall" /\ last.ret = "list"
    /\ last.result # <<>>
    /\ \E i \in SessionRows(last.sid) :
         /\ \E t \in BlockedTerms : Contains(Lower(store[i].text), t)
         /\ DistTo(i) < last.kept[1].dist

\* C5 (result size bound): rag_chat's recall returns at most k entries, and
\* the empty list, not an error, when no row of the session passes the filters;
\* it ends in an error only when its SELECT has failed.
ResultSizeBound ==
    last.op = "rag.recall" =>
        /\ last.ret = "list" =>
              /\ Len(last.result) <= last.k
              /\ (\A i \in SessionRows(last.sid) : ~Qualifies(i)) => last.result = <<>>
        /\ last.ret = "list" \/ last.read = "failed"

\* Witness of C5: more rows pass the filters than k >= 1 allows, and exactly k
\* are returned.
ResultSizeBoundWitness ==
    /\ last.op = "rag.recall" /\ last.ret = "list"
    /\ last.k >= 1
    /\ Len(last.result) = last.k
    /\ Cardinality({i \in SessionRows(last.sid) : Qualifies(i)}) > last.k

\* C6 (noise rejection), as claimed: a remember whose cleaned text matches the
\* noise pattern returns None, and no recall returns a text matching it.
NoiseRejected ==
    /\ LastIsRemember /\ NOISE_RE_search(clean_text(last.text)) => last.ret = "None"
    /\ LastIsRecall => \A j \in DOMAIN last.result : ~NOISE_RE_search(Pairs[j][2])

\* C7 (empty-after-clean rejection), as claimed: a remember whose cleaned text
\* is empty returns None and leaves the table as it was.
EmptyRejected ==
    [][ (last.op = "none" /\ last'.op \in {"rag.remember", "mc.remember"}
           /\ clean_text(last'.text) = <<>>)
        => (last'.ret = "None" /\ store' = store) ]_vars

\* C8 (model-error sentinel): rag_chat's remember of a text whose cleaned form
\* begins with "(model error)" returns None and writes no row.
SentinelRejected ==
    [][ (last.op = "none" /\ last'.op = "rag.remember"
           /\ StartsWith(clean_text(last'.text), Chars("(model error)")))
        => (last'.ret = "None" /\ store' = store /\ nextId' = nextId) ]_vars

\* Witness of C8: the chat loop's failed-generation reply was handed to
\* remember and turned away.
SentinelRejectedWitness ==
    /\ last.op = "rag.remember"
    /\ last.text = Chars("(model error) timeout")
    /\ last.ret = "None"

ReadYourWrites ==
    LastIsRecall /\ last.k >= 1 =>
        \A i \in SessionRows(last.sid) :
            ( /\ store[i].id \in returned
              /\ Qualifies(i)
              /\ Cardinality({l \in SessionRows(last.sid) \ {i} :
                                Qualifies(l) /\ DistTo(l) <= DistTo(i)}) < last.k )
            => \E j \in DOMAIN last.result : Pairs[j] = PairOf(i)

\* The same for rag_chat's recall alone.
ReadYourWritesRag == last.op = "rag.recall" => ReadYourWrites

\* A step in which a call of remember returns an id.
RememberReturnsId ==
    /\ last.op = "none"
    /\ last'.op \in {"rag.remember", "mc.remember"}
    /\ last'.ret = "id"

\* C11 (fresh ids): the id an accepted remember returns is the id of the row it
\* has added, differs from the id of every row already stored and is greater
\* than every id returned before; the ids of the stored rows are distinct and
\* a row's id never changes.
FreshIds ==
    /\ [](\A i, j \in DOMAIN store : i # j => store[i].id # store[j].id)
    /\ [][ RememberReturnsId =>
             /\ \A i \in DOMAIN store : store[i].id # last'.id
             /\ \A r \in returned : last'.id > r
             /\ \E i \in DOMAIN store' \ DOMAIN store :
                   /\ store'[i].id = last'.id
                   /\ store'[i].session_id = last'.sid
                   /\ store'[i].role = last'.role ]_vars
    /\ [][ \A i \in DOMAIN store : i \in DOMAIN store' /\ store'[i].id = store[i].id ]_vars

\* Witness of C11: a remember has returned an id after an earlier remember and
\* after rows written by the bulk ingest.
FreshIdsWitness ==
    /\ LastIsRemember /\ last.ret = "id"
    /\ Cardinality(returned) >= 2
    /\ \E i \in DOMAIN store : store[i].id \notin returned /\ store[i].id < last.id

\* store is an initial part of store'.
StoreKept == Len(store) <= Len(store') /\ SubSeq(store', 1, Len(store)) = store

\* C12 (append-only store): a recall leaves the stored rows as they are, a
\* remember adds at most one row, and every step keeps every stored row with
\* its id, session_id, role, text and embedding.
AppendOnly ==
    [][ /\ StoreKept
        /\ (last.op = "none" /\ last'.op \in {"rag.recall", "mc.recall"}) => store' = store
        /\ (last.op = "none" /\ last'.op \in {"rag.remember", "mc.remember"})
              => Len(store') <= Len(store) + 1 ]_vars

\* Witness of C12: a remember has added its row to a table that already held a
\* row of the same session and role.
AppendOnlyWitness ==
    /\ LastIsRemember /\ last.ret = "id"
    /\ \E i \in DOMAIN store :
         /\ store[i].id # last.id
         /\ store[i].session_id = last.sid
         /\ store[i].role = last.role
    /\ store[Len(store)].id = last.id

\* C13 (idempotent cleaning): cleaning a text a cleaner has returned, with the
\* same cleaner, returns it unchanged.
IdempotentCleaning ==
    /\ last.op = "rag.clean_text" => clean_text(last.result) = last.result
    /\ last.op = "ingest.clean_text" => ingest_clean_text(last.result) = last.result

\* Witness of C13: rag_chat's cleaner has removed an escape character and the
\* blank at the end of what is left, and something is left.
IdempotentCleaningWitness ==
    /\ last.op = "rag.clean_text"
    /\ last.text = <<"ESC", "m", " ">>
    /\ last.result = <<"m">>

\* The characters the cleaners are to remove wherever they stand.
Unclean == {"NUL", "CR"} \cup ControlChars \cup SpinnerChars

\* C14 (cleaning postcondition), as claimed: the text a cleaner returns holds no
\* NUL, no control character but tab and newline, no spinner glyph and no
\* carriage return, and neither starts nor ends with whitespace.
CleaningPostcondition ==
    last.op \in {"rag.clean_text", "ingest.clean_text"} =>
        /\ \A i \in DOMAIN last.result : last.result[i] \notin Unclean
        /\ last.result # <<>> =>
              /\ last.result[1] \notin Whitespace
              /\ last.result[Len(last.result)] \notin Whitespace

\* C15 (stored-text invariant), as claimed: every stored row has a text that is
\* not empty and that cleaning leaves as it is.
StoredTextClean ==
    \A i \in DOMAIN store :
        store[i].text # <<>> /\ clean_text(store[i].text) = store[i].text

\* A step in which a call of recall returns or raises.
RecallStep == last.op = "none" /\ last'.op \in {"rag.recall", "mc.recall"}

\* The SELECT of the recall recorded in call compares vectors of different
\* lengths.
DimsClash(call) ==
    /\ call.k > 0
    /\ \E i \in SessionRows(call.sid) :
          store[i].embedding.dims #
              (IF call.op = "rag.recall" THEN embModelDims ELSE EMB_DIM)

\* C16 (failed recall is distinguishable): a recall whose SELECT fails, the
\* server failing the statement, the connection's transaction being aborted or
\* the vectors differing in length, ends in an error and returns no list.
FailedRecallReported ==
    [][ (RecallStep /\ (~last'.up \/ Aborted(last'.conn) \/ DimsClash(last')))
        => (last'.ret = "error" /\ last'.result = <<>> /\ store' = store) ]_vars

\* Witness of C16: the server has failed the SELECT of a recall of rag_chat on a
\* session that holds a row the recall would have returned.
FailedRecallReportedWitness ==
    /\ last.op = "rag.recall" /\ last.ret = "error"
    /\ ~last.up /\ last.k >= 1
    /\ embModelDims = EMB_DIM
    /\ \E i \in SessionRows(last.sid) :
         /\ Qualifies(i)
         /\ \A l \in SessionRows(last.sid) \ {i} : DistTo(l) > DistTo(i)

\* C17 (failed remember leaves no trace), as claimed: a remember that fails
\* adds no row, and a recall made later over a connection on which nothing
\* but remembers have failed returns what it returns on a sound connection:
\* a list the SELECT yields.
FailedRememberNoTrace ==
    [][ /\ ( /\ last.op = "none" /\ last'.op \in {"rag.remember", "mc.remember"}
             /\ last'.ret = "error" )
          => store' = store
        /\ ( /\ RecallStep
             /\ <<last'.conn, "remember">> \in aborted
             /\ last'.up /\ ~DimsClash(last') )
          => ( /\ last'.ret = "list"
               /\ last'.rows \in Select(last'.sid, QueryVector',
                                        IF last'.op = "rag.recall" THEN FetchLimit(last'.k)
                                        ELSE last'.k,
                                        last'.op = "mc.recall") ) ]_vars

\* C18 (empty session id is rejected), as claimed: a remember or recall made
\* with the empty session id ends in an error, and no stored row has the empty
\* session id.
EmptySessionRejected ==
    /\ \A i \in DOMAIN store : store[i].session_id # ""
    /\ (last.op \in {"rag.remember", "mc.remember", "rag.recall", "mc.recall"} /\ last.sid = "")
          => last.ret = "error"

\* The two rows of the session of the last call when it holds exactly a row
\* remember wrote as user and a later one remember wrote as assistant, and
\* both lie within MIN_SIM of the query and pass the filters.
TwoRemembered ==
    {p \in SessionRows(last.sid) \X SessionRows(last.sid) :
        /\ p[1] < p[2]
        /\ SessionRows(last.sid) = {p[1], p[2]}
        /\ store[p[1]].role = "user" /\ store[p[2]].role = "assistant"
        /\ store[p[1]].id \in returned /\ store[p[2]].id \in returned
        /\ Qualifies(p[1]) /\ Qualifies(p[2])}

\* C19 (end to end): when a session holds nothing but a user row and an
\* assistant row remember wrote, both related to the query, recall with k = 2
\* of rag_chat returns the two of them, the one nearer to the query first.
EndToEnd ==
    (last.op = "rag.recall" /\ last.ret = "list" /\ last.k = 2) =>
        \A p \in TwoRemembered :
            /\ Len(last.result) = 2
            /\ \/ /\ last.result = <<PairOf(p[1]), PairOf(p[2])>>
                  /\ DistTo(p[1]) <= DistTo(p[2])
               \/ /\ last.result = <<PairOf(p[2]), PairOf(p[1])>>
                  /\ DistTo(p[2]) <= DistTo(p[1])

\* Witness of C19: such a recall has returned the assistant's row, which is
\* nearer to the query, before the user's.
EndToEndWitness ==
    /\ last.op = "rag.recall" /\ last.ret = "list" /\ last.k = 2
    /\ \E p \in TwoRemembered :
          /\ DistTo(p[2]) < DistTo(p[1])
          /\ last.result = <<PairOf(p[2]), PairOf(p[1])>>

\* C20 (recall-side noise filter): no text recall of rag_chat returns is empty or
\* matches the noise pattern, whichever script inserted the row; a noise chunk
\* of an ingested log is not returned.
RecallFiltersNoise ==
    (last.op = "rag.recall" /\ last.ret = "list") =>
        \A j \in DOMAIN last.result :
            /\ last.result[j][2] # <<>>
            /\ ~NOISE_RE_search(last.result[j][2])

\* Witness of C20: recall of rag_chat has fetched a row of empty text and a noise
\* chunk of the ingested log that lies within MIN_SIM of the query, and has
\* returned neither.
RecallFiltersNoiseWitness ==
    /\ last.op = "rag.recall" /\ last.ret = "list" /\ last.k >= 1
    /\ ingestRuns >= 1
    /\ \E j \in DOMAIN last.rows : last.rows[j].text = <<>>
    /\ \E j \in DOMAIN last.rows :
          /\ NOISE_RE_search(last.rows[j].text)
          /\ last.rows[j].dist <= MIN_SIM
          /\ last.rows[j].text \in Range(chunk_text(ingest_clean_text(FileLog.raw), CHUNK_CHARS))
          /\ \A l \in DOMAIN last.result : last.result[l][2] # last.rows[j].text

\* The rows of the session of the last call that pass every filter of recall.
QualifyingRows == {i \in SessionRows(last.sid) : Qualifies(i)}

\* C21 (no starvation by over-fetch), as claimed: recall of rag_chat returns
\* min(k, n) rows when n rows of the session pass the filters, and a qualifying
\* row with fewer than k qualifying rows as near or nearer is among them,
\* however many nearer rows the filters drop.
NoStarvation ==
    (last.op = "rag.recall" /\ last.ret = "list") =>
        /\ Len(last.result) = (IF last.k < Cardinality(QualifyingRows) THEN last.k
                               ELSE Cardinality(QualifyingRows))
        /\ \A i \in QualifyingRows :
              Cardinality({l \in QualifyingRows \ {i} : DistTo(l) <= DistTo(i)}) < last.k
              => \E j \in DOMAIN last.result : last.result[j] = PairOf(i)

\* What recall of rag_chat returns for the last call when the SELECT yields rows.
ResultOf(rows) ==
    LET kept == TopK(SortByDist(FilterRows(rows, BlockSet(last.block, last.env))), last.k)
    IN [j \in DOMAIN kept |-> <<kept[j].role, kept[j].text>>]

\* C22 (deterministic recall), as claimed: the list recall of rag_chat has
\* returned is the one every execution of the same call on the same store
\* returns, whichever order the SELECT gives rows at the same distance.
DeterministicRecall ==
    (last.op = "rag.recall" /\ last.ret = "list") =>
        \A rows \in Select(last.sid, QueryVector, FetchLimit(last.k), FALSE) :
            ResultOf(rows) = last.result

\* C24 (filter before embed), as claimed: the steps of a call of remember are a
\* leading part of clean, reject-checks, embed, insert, in this order, and the
\* embedder is run neither on a text that is empty once cleaned nor in a
\* call that rejects its text.
FilterBeforeEmbed ==
    last.op \in {"rag.remember", "mc.remember"} =>
        /\ Len(last.steps) <= 4
        /\ last.steps = SubSeq(<<"clean", "check", "embed", "insert">>, 1, Len(last.steps))
        /\ (\E j \in DOMAIN last.steps : last.steps[j] = "embed")
              => (clean_text(last.text) # <<>> /\ last.ret # "None")

\* A step of the ingest run's loop over the batches of a file.
IngestBatchStep == ing.pc = "batches" /\ ing.i < Len(ing.chunks) /\ ing' # ing

\* The texts of the batch the ingest run is about to insert.
BatchTexts ==
    SubSeq(ing.chunks, ing.i + 1,
           IF ing.i + ing.batch < Len(ing.chunks) THEN ing.i + ing.batch ELSE Len(ing.chunks))

\* C29 (ingest batch atomicity and count): a batch of the ingest run adds all
\* of its rows to the store or none, inserted_total grows by the number of
\* rows the batch added and changes in no other step of a run, and after a
\* batch whose insert failed the run goes on with the next batch.
IngestBatchAtomic ==
    [][ /\ IngestBatchStep =>
             /\ SubSeq(store', 1, Len(store)) = store
             /\ \/ store' = store
                \/ /\ Len(store') = Len(store) + Len(BatchTexts)
                   /\ \A j \in DOMAIN BatchTexts :
                         /\ store'[Len(store) + j].text = BatchTexts[j]
                         /\ store'[Len(store) + j].session_id = ing.session
             /\ ing'.inserted_total - ing.inserted_total = Len(store') - Len(store)
             /\ embModelDims = EMB_DIM
                   => (ing'.pc = "batches" /\ ing'.i = ing.i + ing.batch)
        /\ (~IngestBatchStep /\ ing'.pc # "files")
             => ing'.inserted_total = ing.inserted_total ]_vars

\* Witness of C29: the first batch of a file has failed and the second, the
\* file's last, is in the store and counted.
IngestBatchAtomicWitness ==
    /\ ing.pc = "batches"
    /\ ing.batch < Len(ing.chunks)
    /\ ing.i = 2 * ing.batch /\ ing.i >= Len(ing.chunks)
    /\ ing.inserted_total = Len(ing.chunks) - ing.batch
    /\ Cardinality({i \in DOMAIN store : store[i].text = ing.chunks[Len(ing.chunks)]})
          = ing.inserted_total

\* C27 (blacklist enforcement), as claimed: a command that contains an entry of
\* BLACKLIST_SUBSTRINGS, in whatever letter case, is answered by safe_exec with
\* "blocked by blacklist" and no subprocess is started for it.
BlacklistEnforced ==
    ( /\ last.op = "safe_exec"
      /\ \E i \in DOMAIN BLACKLIST_SUBSTRINGS :
            Contains(Lower(last.text), Lower(BLACKLIST_SUBSTRINGS[i])) )
    => (last.ret = "blocked by blacklist" /\ last.steps = <<>>)

\* C28 (write confinement), as claimed: a file block is written only when its
\* resolved path is LOCAL_META or lies below it.
WriteConfined ==
    (last.op = "file_block" /\ last.ret = "written")
    => (last.result = LOCAL_META \/ StartsWith(last.result, LOCAL_META \o <<"/">>))

\* The wait before retry number j: 2 s doubled j - 1 times, 20 s at most.
RECURSIVE BackoffWait(_)
BackoffWait(j) ==
    IF j = 1 THEN FIRST_DELAY
    ELSE IF 2 * BackoffWait(j - 1) < DELAY_CAP THEN 2 * BackoffWait(j - 1) ELSE DELAY_CAP

\* C25 (bounded retry with backoff), as claimed: the call makes at most
\* MAX_RETRIES attempts, makes a further attempt only after a read timeout or
\* a connection error and a wait, the waits being 2 s, 4 s, 8 s, 16 s and then
\* 20 s, and what it returns is the accumulated text or a string that starts
\* with "[model error]".
BoundedRetry ==
    /\ ollama.attempt <= ollama.MAX_RETRIES
    /\ (ollama.pc = "loop" /\ ollama.attempt >= 1)
          => (ollama.error \in {"ReadTimeout", "ConnectionError"}
              /\ Len(ollama.slept) = ollama.attempt)
    /\ \A j \in DOMAIN ollama.slept : ollama.slept[j] = BackoffWait(j)
    /\ ollama.pc = "returned" => ollama.ret \in {"text", "[model error]"}

\* Every call of call_ollama_stream_and_accumulate returns.
RetryTerminates == (ollama.pc = "loop") ~> (ollama.pc = "returned")

\* C26 (strict role order per turn), as claimed: the calls of a finished turn
\* are Questioner, Creator, then MediatorQ exactly when the interval is above
\* 0 and divides the turn, then Scriber.
StrictRoleOrder ==
    v5.pc = "validate" =>
        [j \in DOMAIN v5.calls |-> v5.calls[j].role]
            = <<"Questioner", "Creator">>
              \o (IF v5.mediator_interval > 0 /\ v5.turn % v5.mediator_interval = 0
                  THEN <<"MediatorQ">> ELSE <<>>)
              \o <<"Scriber">>

\* C30 (same-turn question), as claimed: the question in the prompt of the
\* Creator and of MediatorQ is the Questioner output of the turn they are
\* called in.
SameTurnQuestion ==
    \A j \in DOMAIN v5.calls :
        v5.calls[j].role \in {"Creator", "MediatorQ"} => v5.calls[j].q = v5.turn

\* The rows of table S that the call c of remember, which returned an id,
\* accounts for.
RowsIn(S, c) ==
    {i \in DOMAIN S :
        S[i] = [id |-> c.id, session_id |-> c.sid, role |-> c.role,
                text |-> RowFor(c.script, c.sid, c.role, c.text).text,
                embedding |-> RowFor(c.script, c.sid, c.role, c.text).embedding]}
RowsOf(p) == RowsIn(store, inflight[p])

\* C23 (concurrent inserts are independent): however the steps of two calls of
\* remember interleave, no step removes or changes a stored row, the stored
\* ids are distinct, and a call that has returned an id has exactly one row in
\* the store, which holds that id and what the call's arguments alone
\* determine.
ConcurrentInserts ==
    [][ /\ Len(store) <= Len(store')
        /\ \A i \in DOMAIN store : store'[i] = store[i]
        /\ \A i \in DOMAIN store' : \A j \in DOMAIN store' :
              store'[i].id = store'[j].id => i = j
        /\ \A p \in Procs :
              (inflight'[p].pc = "returned" /\ inflight'[p].ret = "id")
              => Cardinality(RowsIn(store', inflight'[p])) = 1 ]_vars

\* Witness of C23: two calls on the same session and role have both returned,
\* the one that took the lower id having committed after the other.
ConcurrentInsertsWitness ==
    /\ \A p \in Procs : inflight[p].pc = "returned" /\ inflight[p].ret = "id"
    /\ inflight["p1"].sid = inflight["p2"].sid /\ inflight["p1"].role = inflight["p2"].role
    /\ inflight["p1"].id < inflight["p2"].id
    /\ \E i \in RowsOf("p1"), j \in RowsOf("p2") : j < i

====
